---------------------------- MODULE Spec2Model ----------------------------
(***************************************************************************)
(* Model of backoff-decorator (src/src/backoff.ts, the current version of  *)
(* the file: exponentialGenerator at lines 177-201, retry at lines         *)
(* 246-291).                                                               *)
(*                                                                         *)
(* One activation of retry is a frame: the destructured options, the       *)
(* locals numRetries, originalError and delayMs, the generator object and  *)
(* the promise retry returned.  JavaScript runs a frame between two awaits *)
(* without interruption, so an action is one such synchronous segment:     *)
(* from the call to the first await, from the settling of the target's     *)
(* promise to the next await or to the end, from the settling of the sleep *)
(* to the next await.  What a frame did to the outside world (pulls from   *)
(* the generator, invocations of the target, emits, predicate calls,       *)
(* sleeps) is recorded in the frame's log, in order.                       *)
(*                                                                         *)
(* The environment decides, at each step, whether the target's promise is  *)
(* fulfilled (with which value) or rejected (with which error), what the   *)
(* predicate answers, and whether the 'retries' emit returns or throws: it *)
(* is called inside the try statement (lines 266-271), so what it throws   *)
(* is an input of the catch clause.  It decides as well whether the        *)
(* 'throttle' emit returns or throws, whether sleepFunction returns a      *)
(* promise or throws, and whether that promise is resolved or rejected:    *)
(* lines 286-289 are outside the try statement, so each of these failures  *)
(* rejects the call.  The predicate returns a boolean or throws: it is     *)
(* called in the catch clause (line 274), so what it throws rejects the    *)
(* call as well.                                                           *)
(*                                                                         *)
(* Numbers are exact fractions, so that a fractional factor, base or clamp *)
(* and what Math.round does to it are part of the model.  The fractions of *)
(* the model are dyadic (their denominators are powers of two) and small,  *)
(* so the doubles of the program hold them, and their products and         *)
(* differences, exactly.  Besides the                                      *)
(* retry calls there are two more ways in: a generator iterated on its own *)
(* (SpecGenerator: Math.random() is then drawn from a finer grid), and a   *)
(* method decorated with backoffWith or backoff (SpecDecorated, lines      *)
(* 297-329).                                                               *)
(***************************************************************************)
EXTENDS Integers, Sequences, FiniteSets, TLC

VARIABLES
    calls,      \* calls[c]: the options object, the receiver and the arguments of call c
    frame,      \* frame[s]: the activation record stored in slot s
    inputs      \* inputs[c]: what the environment has decided for call c, in order

vars == <<calls, frame, inputs>>

---------------------------------------------------------------------------
(* Bounds of the model *)

\* the largest maxRetries an options object carries
MaxRetriesBound == 3

\* Math.random() is drawn from {0/RandDen, ..., (RandDen-1)/RandDen}
RandDen == 2

\* the same for a generator that is iterated on its own
GeneratorRandDen == 4

\* the number of values taken from a generator that is iterated on its own
MaxPulls == 3

---------------------------------------------------------------------------
(* Values *)

\* the retry calls of the model
Calls == {1, 2}

\* a JavaScript number of the model: the fraction num / den in lowest terms,
\* den > 0 (Frac binds num and den to their values before it reduces them)
RECURSIVE GCD(_, _)
GCD(a, b) == IF b = 0 THEN a ELSE GCD(b, a % b)

Abs(a) == IF a < 0 THEN -a ELSE a

Frac(num, den) ==
    CHOOSE x \in { [num |-> n \div GCD(Abs(n), d), den |-> d \div GCD(Abs(n), d)] :
                      n \in {num}, d \in {den} } : TRUE

Whole(v) == [num |-> v, den |-> 1]

\* Number.isInteger
IsInteger(x) == x.den = 1

\* x * y and x - y: exact, as they are in doubles for the dyadic fractions
\* of the model
Times(x, y) == Frac(x.num * y.num, x.den * y.den)

Minus(x, y) == Frac(x.num * y.den - y.num * x.den, x.den * y.den)

\* x < y and x <= y
Less(x, y) == x.num * y.den < y.num * x.den

AtMost(x, y) == x.num * y.den <= y.num * x.den

\* an optional number: <<>> is undefined, <<x>> is the number x
Undefined == <<>>

Some(x) == <<x>>

\* JavaScript truthiness of an optional number: undefined and 0 are falsy
Truthy(x) == x # Undefined /\ x[1].num # 0

\* a destructuring default, `name = d`: d when the property is undefined
Default(x, d) == IF x = Undefined THEN d ELSE x[1]

DefaultBase == 2

DefaultMaxRetries == 1

DefaultBackoffFactor == 50

\* what the target's promise can be fulfilled with
Values == {"v1", "v2"}

\* what the target's promise can be rejected with
Errors == {"e1", "e2"}

\* what a listener of 'retries' throws when it throws
ListenerError == "listenerError"

\* what a listener of 'throttle' throws when it throws
ThrottleListenerError == "throttleListenerError"

\* what sleepFunction throws, or rejects its promise with, when it fails
SleepError == "sleepError"

\* what the predicate throws when it throws
PredicateError == "predicateError"

\* what goes wrong outside the try statement, at lines 274 and 286-289:
\* nothing, the predicate throws (if it is called), the 'throttle' emit
\* throws (if it is called), or sleepFunction throws instead of returning a
\* promise
Failures == {"none", "predicate", "throttle", "sleep"}

\* the receivers: null, an object without emit, an event emitter
ThisArgs == {"null", "plain", "emitter"}

\* the argument lists
ArgLists == {<<2, 6>>, <<21>>}

\* targetFunction.name
TargetName == "target"

\* the values Math.random() takes in a retry call
Rands == {Frac(k, RandDen) : k \in 0 .. (RandDen - 1)}

\* Math.min and Math.max
Min(x, y) == IF Less(x, y) THEN x ELSE y

Max(x, y) == IF Less(y, x) THEN x ELSE y

\* b ** n for a natural n
RECURSIVE Pow(_, _)
Pow(b, n) == IF n = 0 THEN Whole(1) ELSE Times(b, Pow(b, n - 1))

\* Math.round: the nearest integer, halves upwards
Round(x) == Whole((2 * x.num + x.den) \div (2 * x.den))

---------------------------------------------------------------------------
(* exponentialGenerator *)

\* the generator object before its first next(): lines 184-188
NewGenerator(base, factor, maxValue, minValue, jitter) ==
    [ base     |-> base,
      factor   |-> factor,
      maxValue |-> maxValue,
      minValue |-> IF Truthy(minValue) /\ Truthy(maxValue) /\ Less(maxValue[1], minValue[1])
                   THEN maxValue ELSE minValue,
      jitter   |-> jitter,
      n        |-> 0,
      started  |-> FALSE ]

\* the value before the jitter step: lines 190-192
PreJitter(g, n) ==
    LET raw    == Times(g.factor, Pow(g.base, n))
        capped == IF Truthy(g.maxValue) THEN Min(g.maxValue[1], raw) ELSE raw
    IN  IF Truthy(g.minValue) THEN Max(g.minValue[1], capped) ELSE capped

\* the values of the jitter parameter: undefined, a boolean, or the number
\* num / den (den > 0)
NoJitter == [type |-> "undefined"]

BooleanJitter(b) == [type |-> "boolean", on |-> b]

NumberJitter(num, den) == [type |-> "number", value |-> Frac(num, den)]

\* `jitter === true`: line 193
IsFullJitter(j) == j.type = "boolean" /\ j.on

\* `typeof jitter === 'number' && jitter >= 0 && jitter <= 1`: line 195
IsPartialJitter(j) ==
    j.type = "number" /\ AtMost(Whole(0), j.value) /\ AtMost(j.value, Whole(1))

\* the jitter step when Math.random() returns rnd: lines 193-197
Jittered(g, value, rnd) ==
    IF IsFullJitter(g.jitter)
    THEN Round(Times(rnd, value))
    ELSE IF IsPartialJitter(g.jitter)
         THEN Round(Times(Minus(Whole(1), Times(g.jitter.value, rnd)), value))
         ELSE value

\* the index the generator computes at its next next(): n++ runs when the
\* generator is resumed after a yield (line 199)
NextIndex(g) == IF g.started THEN g.n + 1 ELSE g.n

\* the value of the next next(): line 198
NextValue(g, rnd) == Jittered(g, PreJitter(g, NextIndex(g)), rnd)

\* the generator object after that next()
Advance(g) == [g EXCEPT !.n = NextIndex(g), !.started = TRUE]

---------------------------------------------------------------------------
(* retry *)

\* `thisArg && thisArg.emit`: lines 268 and 286
CanEmit(thisArg) == thisArg = "emitter"

\* line 274 without its first disjunct
PredicateOnlyRethrow(hasPredicate, answer) == hasPredicate /\ ~answer

\* `!predicate || !predicate(err, args)`: line 274
ShouldRethrow(hasPredicate, answer) == ~hasPredicate \/ ~answer

\* line 280 with the counter compared one too late
ExhaustedOneLate(numRetries, maxRetries) == numRetries > maxRetries + 1

\* line 280 with a test that never holds
ExhaustedNever(numRetries, maxRetries) == FALSE

\* `numRetries > maxRetries`: line 280
Exhausted(numRetries, maxRetries) == numRetries > maxRetries

\* what is thrown when the retries are exhausted: line 283
ExhaustedError(f) == f.originalError

\* the last argument of the 'retries' emit: line 269
RetriesPayload(f) == f.numRetries

\* the last argument of the 'throttle' emit: line 287
ThrottlePayload(f) == f.delayMs

\* the argument of sleepFunction: line 289
SleepArg(f) == f.delayMs

\* the receiver and the arguments of targetFunction.apply: line 267
ApplyThis(f) == f.thisArg

ApplyArgs(f) == f.args

Log(f, e) == [f EXCEPT !.log = Append(@, e)]

\* a frame no call has used yet
NoFrame ==
    [ pc |-> "idle", base |-> Whole(0), maxRetries |-> 0, maxDelayMs |-> Undefined,
      minDelayMs |-> Undefined, backoffFactor |-> Whole(0), predicate |-> FALSE,
      fullJitter |-> NoJitter, thisArg |-> "null", args |-> <<>>,
      numRetries |-> 0, originalError |-> "undefined", delayMs |-> Whole(0),
      gen |-> NewGenerator(Whole(0), Whole(0), Undefined, Undefined, NoJitter),
      settled |-> "pending", value |-> "undefined", log |-> <<>> ]

\* the frame of retry(o, target, thisArg, ...args) before its loop:
\* lines 246-265
NewFrame(o, thisArg, args) ==
    LET base          == Default(o.base, Whole(DefaultBase))
        backoffFactor == Default(o.backoffFactor, Whole(DefaultBackoffFactor))
    IN  [ pc            |-> "running",
          base          |-> base,
          maxRetries    |-> Default(o.maxRetries, DefaultMaxRetries),
          maxDelayMs    |-> o.maxDelayMs,
          minDelayMs    |-> o.minDelayMs,
          backoffFactor |-> backoffFactor,
          predicate     |-> o.predicate,
          fullJitter    |-> o.fullJitter,
          thisArg       |-> thisArg,
          args          |-> args,
          numRetries    |-> 1,
          originalError |-> "undefined",
          delayMs       |-> Whole(0),
          gen           |-> NewGenerator(base, backoffFactor, o.maxDelayMs,
                                         o.minDelayMs, o.fullJitter),
          settled       |-> "pending",
          value         |-> "undefined",
          log           |-> <<>> ]

\* `for (const delayMs of exponentialGenerator(...))`: one next(), line 265
Pull(f, rnd) ==
    Log([f EXCEPT !.delayMs = NextValue(f.gen, rnd), !.gen = Advance(f.gen)],
        [ev |-> "pull", index |-> NextIndex(f.gen),
         exponential |-> PreJitter(f.gen, NextIndex(f.gen)),
         value |-> NextValue(f.gen, rnd)])

\* `await targetFunction.apply(thisArg, args)`: the call, line 267
Invoke(f) ==
    Log([f EXCEPT !.pc = "awaitTarget"],
        [ev |-> "invoke", thisArg |-> ApplyThis(f), args |-> ApplyArgs(f)])

\* an iteration that takes no value from the generator
LoopHeadWithoutPull(f, rnd) == Invoke(f)

\* the head of one loop iteration, up to the await of the target
LoopHead(f, rnd) == Invoke(Pull(f, rnd))

\* `return result`: line 271
Return(f, v) == [f EXCEPT !.pc = "done", !.settled = "resolved", !.value = v]

\* `throw`: lines 275 and 283
Throw(f, e) == [f EXCEPT !.pc = "done", !.settled = "rejected", !.value = e]

\* after the try statement: lines 279-289
AfterCatch(f, failure) ==
    LET f1 == [f EXCEPT !.numRetries = @ + 1]
        f2 == IF CanEmit(f1.thisArg)
              THEN Log(f1, [ev |-> "emit", name |-> "throttle", fname |-> TargetName,
                            args |-> f1.args, payload |-> ThrottlePayload(f1),
                            threw |-> (failure = "throttle")])
              ELSE f1
        f3 == Log(f2, [ev |-> "sleep", ms |-> SleepArg(f2), threw |-> (failure = "sleep")])
    IN  IF Exhausted(f1.numRetries, f1.maxRetries)
        THEN Throw(f1, ExhaustedError(f1))
        ELSE IF CanEmit(f1.thisArg) /\ failure = "throttle"
             THEN Throw(f2, ThrottleListenerError)
             ELSE IF failure = "sleep"
                  THEN Throw(f3, SleepError)
                  ELSE [f3 EXCEPT !.pc = "awaitSleep"]

\* the catch clause with err caught: lines 272-277
Catch(f, err, answer, failure) ==
    LET f1 == [f EXCEPT !.originalError = err]
        f2 == IF f1.predicate
              THEN Log(f1, [ev |-> "predicate", error |-> err, args |-> f1.args,
                            answer |-> answer, threw |-> (failure = "predicate")])
              ELSE f1
    IN  IF f1.predicate /\ failure = "predicate"
        THEN Throw(f2, PredicateError)
        ELSE IF ShouldRethrow(f1.predicate, answer)
             THEN Throw(f2, err)
             ELSE AfterCatch(f2, failure)

\* the target's promise is fulfilled with v: lines 267-271
OnFulfilled(f, v, emitThrows, answer, failure) ==
    LET f1 == Log(f, [ev |-> "fulfilled", value |-> v])
        f2 == Log(f1, [ev |-> "emit", name |-> "retries", fname |-> TargetName,
                       args |-> f1.args, payload |-> RetriesPayload(f1),
                       threw |-> emitThrows])
    IN  IF CanEmit(f1.thisArg)
        THEN IF emitThrows THEN Catch(f2, ListenerError, answer, failure) ELSE Return(f2, v)
        ELSE Return(f1, v)

\* the target's promise is rejected with e: lines 267, 272
OnRejected(f, e, answer, failure) ==
    Catch(Log(f, [ev |-> "rejected", error |-> e]), e, answer, failure)

\* the sleep's promise is resolved: line 289, then the next iteration
OnWoken(f, rnd) == LoopHead(Log(f, [ev |-> "woken"]), rnd)

\* the sleep's promise is rejected: the await of line 289 throws, outside
\* the try statement
OnSleepRejected(f) == Throw(Log(f, [ev |-> "sleepRejected"]), SleepError)

---------------------------------------------------------------------------
(* The state machine *)

\* the locals declared outside retry: one slot for all the calls
SharedSlot(c) == 1

\* the slot that holds the locals of call c: they are declared inside retry
\* (lines 252-265), so every call has its own
Slot(c) == c

\* the generator parts of the options objects of the model: the defaults,
\* the options of the decorator test (test/backoff_test.ts, lines 249-255),
\* a constant delay with full jitter, and a capped delay with jitter 1/2
DefaultDelays ==
    [base |-> Undefined, backoffFactor |-> Undefined, maxDelayMs |-> Undefined,
     minDelayMs |-> Undefined, fullJitter |-> NoJitter]

TestDelays ==
    [base |-> Undefined, backoffFactor |-> Some(Whole(1)), maxDelayMs |-> Some(Whole(2)),
     minDelayMs |-> Some(Whole(1)), fullJitter |-> NoJitter]

FullJitterDelays ==
    [base |-> Some(Whole(1)), backoffFactor |-> Some(Whole(3)), maxDelayMs |-> Undefined,
     minDelayMs |-> Some(Whole(4)), fullJitter |-> BooleanJitter(TRUE)]

PartialJitterDelays ==
    [base |-> Some(Whole(3)), backoffFactor |-> Some(Whole(4)), maxDelayMs |-> Some(Whole(20)),
     minDelayMs |-> Undefined, fullJitter |-> NumberJitter(1, 2)]

\* the default delays with a ceiling of 0
ZeroCeilingDelays ==
    [base |-> Undefined, backoffFactor |-> Undefined, maxDelayMs |-> Some(Whole(0)),
     minDelayMs |-> Undefined, fullJitter |-> NoJitter]

GeneratorOptions ==
    {DefaultDelays, TestDelays, FullJitterDelays, PartialJitterDelays, ZeroCeilingDelays}

MaxRetriesOptions == {Undefined} \cup {Some(m) : m \in -1 .. MaxRetriesBound}

OptionsOf(g, m, p) ==
    [ base |-> g.base, backoffFactor |-> g.backoffFactor, maxDelayMs |-> g.maxDelayMs,
      minDelayMs |-> g.minDelayMs, fullJitter |-> g.fullJitter,
      maxRetries |-> m, predicate |-> p ]

AllOptions ==
    { OptionsOf(g, m, p) : g \in GeneratorOptions, m \in MaxRetriesOptions, p \in BOOLEAN }

\* a call: how it is made (via), the options given to retry or to
\* backoffWith, the receiver, the arguments, and the backoffOptions property
\* of the receiver (undefined or an options object)

\* retry(options, target, thisArg, ...args)
CallOf(o, t, a) ==
    [via |-> "retry", options |-> o, thisArg |-> t, args |-> a,
     backoffOptions |-> Undefined]

\* t.method(...args), the method decorated with @backoffWith(o): lines 297-312
BackoffWithCallOf(o, t, a, own) ==
    [via |-> "backoffWith", options |-> o, thisArg |-> t, args |-> a,
     backoffOptions |-> own]

\* t.method(...args), the method decorated with @backoff: lines 317-329
BackoffCallOf(t, a, own) ==
    [via |-> "backoff", options |-> Undefined, thisArg |-> t, args |-> a,
     backoffOptions |-> own]

\* the wrapper with `this` lost: null for the third argument of retry
RetryThisUnbound(call) == "null"

\* the arguments the call gives to retry: line 306 for backoffWith, line 325
\* for backoff, the call itself for retry
RetryOptions(call) ==
    IF call.via = "backoff" THEN call.backoffOptions[1] ELSE call.options

RetryThis(call) == call.thisArg

RetryArgs(call) == call.args

AllCalls == { CallOf(o, t, a) : o \in AllOptions, t \in ThisArgs, a \in ArgLists }

\* the calls that are made at the same time: each retries, with the default
\* delays or with those of the decorator test, one of them on an event
\* emitter
ConcurrentCalls ==
    { CallOf(OptionsOf(DefaultDelays, Some(2), TRUE), "null", <<21>>),
      CallOf(OptionsOf(TestDelays, Some(2), TRUE), "null", <<21>>),
      CallOf(OptionsOf(TestDelays, Some(2), TRUE), "emitter", <<21>>) }

\* what the environment decides: the emit can throw when there is an emit,
\* the predicate answers when there is a predicate, Math.random() is drawn
\* when there is jitter
EmitOutcomes(f) == IF CanEmit(f.thisArg) THEN BOOLEAN ELSE {FALSE}

Answers(f) == IF f.predicate THEN BOOLEAN ELSE {FALSE}

\* what can go wrong in a step that goes through the catch clause: the
\* predicate can throw when it is called (asked; its answer is then none,
\* written FALSE), and lines 286-289 can fail when the step reaches them.
\* g is the frame after the step when nothing goes wrong
FailuresAfter(asked, answer, g) ==
    {"none"}
    \cup (IF asked /\ ~answer THEN {"predicate"} ELSE {})
    \cup (IF g.pc = "awaitSleep" THEN {"sleep"} ELSE {})
    \cup (IF g.pc = "awaitSleep" /\ CanEmit(g.thisArg) THEN {"throttle"} ELSE {})

RandsOf(jitter) ==
    IF IsFullJitter(jitter) \/ IsPartialJitter(jitter) THEN Rands ELSE {Whole(0)}

\* the frame of a call that is never made
Unused == [NoFrame EXCEPT !.pc = "unused"]

\* one call is made, with any options object
Init ==
    /\ calls \in [Calls -> AllCalls]
    /\ calls[2] = calls[1]
    /\ frame = [c \in Calls |-> IF c = 1 THEN NoFrame ELSE Unused]
    /\ inputs = [c \in Calls |-> <<>>]

\* two calls are made
InitConcurrent ==
    /\ calls \in [Calls -> ConcurrentCalls]
    /\ frame = [c \in Calls |-> NoFrame]
    /\ inputs = [c \in Calls |-> <<>>]

\* the locals read again from the options object at every step
LocalsReread(c, f) ==
    [f EXCEPT !.maxRetries = Default(RetryOptions(calls[c]).maxRetries, DefaultMaxRetries),
              !.predicate  = RetryOptions(calls[c]).predicate]

\* the locals of call c when a step resumes its frame f: the constants
\* bound by the destructuring of lines 252-261, as they are in the frame
Locals(c, f) == f

\* the call c is made: lines 246-267
Start(c) ==
    /\ frame[Slot(c)].pc = "idle"
    /\ \E rnd \in RandsOf(RetryOptions(calls[c]).fullJitter) :
          /\ frame' = [frame EXCEPT ![Slot(c)] =
                         LoopHead(NewFrame(RetryOptions(calls[c]), RetryThis(calls[c]),
                                           RetryArgs(calls[c])), rnd)]
          /\ inputs' = [inputs EXCEPT ![c] =
                          Append(@, [step |-> "start", rnd |-> rnd, call |-> calls[c]])]
    /\ UNCHANGED calls

\* the target's promise is fulfilled: lines 267-289
TargetFulfilled(c) ==
    /\ frame[Slot(c)].pc = "awaitTarget"
    /\ \E v \in Values, emitThrows \in EmitOutcomes(frame[Slot(c)]) :
       \E answer \in IF emitThrows THEN Answers(frame[Slot(c)]) ELSE {FALSE} :
       \E failure \in FailuresAfter(emitThrows /\ Locals(c, frame[Slot(c)]).predicate, answer,
                                    OnFulfilled(Locals(c, frame[Slot(c)]), v, emitThrows,
                                                answer, "none")) :
          /\ frame' = [frame EXCEPT ![Slot(c)] =
                         OnFulfilled(Locals(c, @), v, emitThrows, answer, failure)]
          /\ inputs' = [inputs EXCEPT ![c] =
                          Append(@, [step |-> "fulfilled", value |-> v,
                                     emitThrows |-> emitThrows, answer |-> answer,
                                     failure |-> failure])]
    /\ UNCHANGED calls

\* the target's promise is rejected: lines 267, 272-289
TargetRejected(c) ==
    /\ frame[Slot(c)].pc = "awaitTarget"
    /\ \E e \in Errors, answer \in Answers(frame[Slot(c)]) :
       \E failure \in FailuresAfter(Locals(c, frame[Slot(c)]).predicate, answer,
                                    OnRejected(Locals(c, frame[Slot(c)]), e, answer, "none")) :
          /\ frame' = [frame EXCEPT ![Slot(c)] = OnRejected(Locals(c, @), e, answer, failure)]
          /\ inputs' = [inputs EXCEPT ![c] =
                          Append(@, [step |-> "rejected", error |-> e, answer |-> answer,
                                     failure |-> failure])]
    /\ UNCHANGED calls

\* the model follows a call as long as its counter is one that the options
\* of the model allow: numRetries <= maxRetries <= MaxRetriesBound at every
\* sleep (line 280)
Followed(f) == f.numRetries <= MaxRetriesBound

\* the sleep's promise is resolved: lines 289, 265-267
Woken(c) ==
    /\ frame[Slot(c)].pc = "awaitSleep"
    /\ Followed(frame[Slot(c)])
    /\ \E rnd \in RandsOf(frame[Slot(c)].fullJitter) :
          /\ frame' = [frame EXCEPT ![Slot(c)] = OnWoken(Locals(c, @), rnd)]
          /\ inputs' = [inputs EXCEPT ![c] = Append(@, [step |-> "woken", rnd |-> rnd])]
    /\ UNCHANGED calls

\* the sleep's promise is rejected: line 289
SleepRejected(c) ==
    /\ frame[Slot(c)].pc = "awaitSleep"
    /\ Followed(frame[Slot(c)])
    /\ frame' = [frame EXCEPT ![Slot(c)] = OnSleepRejected(Locals(c, @))]
    /\ inputs' = [inputs EXCEPT ![c] = Append(@, [step |-> "sleepRejected"])]
    /\ UNCHANGED calls

Next ==
    \/ \E c \in Calls : Start(c)
    \/ \E c \in Calls : TargetFulfilled(c)
    \/ \E c \in Calls : TargetRejected(c)
    \/ \E c \in Calls : Woken(c)
    \/ \E c \in Calls : SleepRejected(c)

\* one retry call
Spec == Init /\ [][Next]_vars

\* the options objects of the decorated methods: those of the decorator
\* tests (test/backoff_test.ts, lines 198, 203, 208 and 249-255)
DecoratorOptions ==
    { OptionsOf(DefaultDelays, Undefined, FALSE),
      OptionsOf(DefaultDelays, Undefined, TRUE),
      OptionsOf(DefaultDelays, Some(2), TRUE),
      OptionsOf(TestDelays, Some(3), TRUE) }

\* the receivers of the decorated methods: instances, with or without emit
Instances == {"plain", "emitter"}

DecoratedCalls ==
    { BackoffWithCallOf(o, t, a, own) :
        o \in DecoratorOptions, t \in Instances, a \in ArgLists,
        own \in {Undefined} \cup {Some(x) : x \in DecoratorOptions} }
    \cup
    { BackoffCallOf(t, a, Some(x)) :
        t \in Instances, a \in ArgLists, x \in DecoratorOptions }

\* one call of a decorated method is made
InitDecorated ==
    /\ calls \in [Calls -> DecoratedCalls]
    /\ calls[2] = calls[1]
    /\ frame = [c \in Calls |-> IF c = 1 THEN NoFrame ELSE Unused]
    /\ inputs = [c \in Calls |-> <<>>]

\* the receiver's backoffOptions property is assigned before the call
SetBackoffOptions(c) ==
    /\ frame[Slot(c)].pc = "idle"
    /\ \E x \in DecoratorOptions :
          /\ calls[c].backoffOptions # Some(x)
          /\ calls' = [calls EXCEPT ![c].backoffOptions = Some(x)]
    /\ UNCHANGED <<frame, inputs>>

NextDecorated ==
    \/ \E c \in Calls : SetBackoffOptions(c)
    \/ \E c \in Calls : Start(c)
    \/ \E c \in Calls : TargetFulfilled(c)
    \/ \E c \in Calls : TargetRejected(c)
    \/ \E c \in Calls : Woken(c)
    \/ \E c \in Calls : SleepRejected(c)

\* one call of a method decorated with backoffWith or backoff
SpecDecorated == InitDecorated /\ [][NextDecorated]_vars

\* the calls whose options object is written while they run: a direct call
\* and a call of a method decorated with backoff
WrittenCalls ==
    { CallOf(OptionsOf(TestDelays, Some(2), TRUE), t, <<21>>) : t \in {"null", "emitter"} }
    \cup
    { BackoffCallOf(t, <<21>>, Some(OptionsOf(TestDelays, Some(2), TRUE))) : t \in Instances }

InitWritten ==
    /\ calls \in [Calls -> WrittenCalls]
    /\ calls[2] = calls[1]
    /\ frame = [c \in Calls |-> IF c = 1 THEN NoFrame ELSE Unused]
    /\ inputs = [c \in Calls |-> <<>>]

\* the options object with maxRetries and predicate assigned
Written(o, m, p) == [o EXCEPT !.maxRetries = m, !.predicate = p]

\* while call c is in flight somebody (the target, the predicate, another
\* task) assigns maxRetries and predicate of the options object the call
\* was given: options, or the receiver's backoffOptions
WriteOptions(c) ==
    /\ frame[Slot(c)].pc \in {"awaitTarget", "awaitSleep"}
    /\ \E m \in {Some(0), Some(2), Some(MaxRetriesBound)}, p \in BOOLEAN :
          /\ Written(RetryOptions(calls[c]), m, p) # RetryOptions(calls[c])
          /\ calls' = [calls EXCEPT ![c] =
                         IF calls[c].via = "backoff"
                         THEN [calls[c] EXCEPT !.backoffOptions =
                                   Some(Written(calls[c].backoffOptions[1], m, p))]
                         ELSE [calls[c] EXCEPT !.options = Written(calls[c].options, m, p)]]
    /\ UNCHANGED <<frame, inputs>>

NextWritten ==
    \/ \E c \in Calls : WriteOptions(c)
    \/ \E c \in Calls : Start(c)
    \/ \E c \in Calls : TargetFulfilled(c)
    \/ \E c \in Calls : TargetRejected(c)
    \/ \E c \in Calls : Woken(c)
    \/ \E c \in Calls : SleepRejected(c)

\* one call whose options object is written while it runs
SpecWritten == InitWritten /\ [][NextWritten]_vars

\* the arguments of exponentialGenerator when it is iterated on its own, as
\* in test/backoff_test.ts, lines 20-114: whole and fractional bases and
\* factors, a negative factor, ceilings and floors that are absent, 0,
\* consistent or contradicting, and every kind of jitter
GeneratorBases == {Whole(1), Whole(2), Frac(3, 2)}

GeneratorFactors == {Whole(-1), Frac(3, 4), Whole(1), Whole(3)}

GeneratorCeilings == {Undefined, Some(Whole(0)), Some(Whole(2)), Some(Frac(7, 2))}

GeneratorFloors == {Undefined, Some(Whole(0)), Some(Whole(1)), Some(Whole(4))}

GeneratorJitters ==
    {NoJitter, BooleanJitter(FALSE), BooleanJitter(TRUE), NumberJitter(0, 1),
     NumberJitter(1, 2), NumberJitter(1, 1), NumberJitter(2, 1)}

GeneratorArguments ==
    { [base |-> Some(b), backoffFactor |-> Some(f), maxDelayMs |-> mx,
       minDelayMs |-> mn, fullJitter |-> j] :
        b \in GeneratorBases, f \in GeneratorFactors, mx \in GeneratorCeilings,
        mn \in GeneratorFloors, j \in GeneratorJitters }

\* the values Math.random() takes for a generator iterated on its own
GeneratorRands(jitter) ==
    IF IsFullJitter(jitter) \/ IsPartialJitter(jitter)
    THEN {Frac(k, GeneratorRandDen) : k \in 0 .. (GeneratorRandDen - 1)}
    ELSE {Whole(0)}

\* exponentialGenerator(base, factor, maxValue, minValue, jitter) is called
\* and its generator object is kept in slot 1: lines 177-188
InitGenerator ==
    /\ \E a \in GeneratorArguments :
          /\ calls = [c \in Calls |-> CallOf(OptionsOf(a, Undefined, FALSE), "null", <<>>)]
          /\ frame = [c \in Calls |->
                        IF c = 1
                        THEN [NoFrame EXCEPT
                                !.pc = "iterating",
                                !.gen = NewGenerator(a.base[1], a.backoffFactor[1],
                                                     a.maxDelayMs, a.minDelayMs,
                                                     a.fullJitter)]
                        ELSE Unused]
    /\ inputs = [c \in Calls |-> <<>>]

\* generator.next(): lines 189-199
GeneratorNext ==
    /\ frame[1].pc = "iterating"
    /\ Len(frame[1].log) < MaxPulls
    /\ \E rnd \in GeneratorRands(frame[1].gen.jitter) :
          frame' = [frame EXCEPT ![1] = Pull(@, rnd)]
    /\ UNCHANGED <<calls, inputs>>

NextGenerator == GeneratorNext

\* a generator iterated on its own
SpecGenerator == InitGenerator /\ [][NextGenerator]_vars

\* the promise of the target is settled, one way or the other
TargetSettles(c) == TargetFulfilled(c) \/ TargetRejected(c)

\* the promise of the sleep is settled, one way or the other
SleepSettles(c) == Woken(c) \/ SleepRejected(c)

\* every invocation of the target completes and every sleep completes: the
\* promises awaited at lines 267 and 289 are settled in the end
Completion ==
    \A c \in Calls : WF_vars(TargetSettles(c)) /\ WF_vars(SleepSettles(c))

\* the calls whose end is looked for: every maxRetries of the model, with
\* and without predicate, with and without emit
CompletingCalls ==
    { CallOf(OptionsOf(g, m, p), t, <<21>>) :
        g \in {DefaultDelays, TestDelays}, m \in MaxRetriesOptions,
        p \in BOOLEAN, t \in {"null", "emitter"} }

InitFair ==
    /\ calls \in [Calls -> CompletingCalls]
    /\ calls[2] = calls[1]
    /\ frame = [c \in Calls |-> IF c = 1 THEN NoFrame ELSE Unused]
    /\ inputs = [c \in Calls |-> <<>>]

\* one retry call whose awaits all complete
SpecFair == InitFair /\ [][Next]_vars /\ Completion

\* two retry calls whose awaits interleave in any order
SpecConcurrent == InitConcurrent /\ [][Next]_vars

---------------------------------------------------------------------------
(* What a call did, read from its log *)

\* the calls that were made
Made == {c \in Calls : frame[c].pc \notin {"idle", "unused"}}

EventsOf(f, kind) == SelectSeq(f.log, LAMBDA x : x.ev = kind)

EmitsOf(f, name) == SelectSeq(f.log, LAMBDA x : x.ev = "emit" /\ x.name = name)

\* the settlings of the target's promises, in order
Outcomes(f) == SelectSeq(f.log, LAMBDA x : x.ev \in {"fulfilled", "rejected"})

Invocations(f) == Len(EventsOf(f, "invoke"))

Sleeps(f) == Len(EventsOf(f, "sleep"))

Last(s) == s[Len(s)]

\* the arguments the generator in slot 1 was created with, and what it
\* yielded so far
GeneratorBase == calls[1].options.base[1]

GeneratorFactor == calls[1].options.backoffFactor[1]

GeneratorMaxValue == calls[1].options.maxDelayMs

GeneratorMinValue == calls[1].options.minDelayMs

GeneratorJitter == calls[1].options.fullJitter

Yielded == EventsOf(frame[1], "pull")

\* one decision of the environment applied to the frame f of the call
ReplayStep(call, f, x) ==
    CASE x.step = "start"     -> LoopHead(NewFrame(call.options, call.thisArg,
                                                   call.args), x.rnd)
      [] x.step = "fulfilled" -> OnFulfilled(f, x.value, x.emitThrows, x.answer, x.failure)
      [] x.step = "rejected"  -> OnRejected(f, x.error, x.answer, x.failure)
      [] x.step = "woken"     -> OnWoken(f, x.rnd)
      [] x.step = "sleepRejected" -> OnSleepRejected(f)

\* the call alone: its frame after the environment's decisions for it, with
\* no other call running
RECURSIVE Replay(_, _, _)
Replay(call, ins, i) ==
    IF i = 0 THEN NoFrame
    ELSE ReplayStep(call, Replay(call, ins, i - 1), ins[i])

\* the same, for a call that may settle before the decisions are used up:
\* a settled call takes no further step
RECURSIVE ReplayUntilDone(_, _, _)
ReplayUntilDone(call, ins, i) ==
    IF i = 0 THEN NoFrame
    ELSE LET f == ReplayUntilDone(call, ins, i - 1)
         IN  IF f.pc = "done" THEN f ELSE ReplayStep(call, f, ins[i])

Alone(c) == Replay(calls[c], inputs[c], Len(inputs[c]))

\* the call c made on the receiver t instead, with the same options, the
\* same arguments, the same target behaviour and the same random draws
OnReceiver(c, t) ==
    ReplayUntilDone([calls[c] EXCEPT !.thisArg = t], inputs[c], Len(inputs[c]))

---------------------------------------------------------------------------
(* The claims *)

\* C1: if the k-th invocation of the target is the first that succeeds and
\* k <= maxRetries, retry resolves with the value of that invocation after
\* exactly k invocations, each with thisArg as receiver and the same args.
C1_ResolvesWithFirstSuccess ==
    \A c \in Made :
        LET f   == frame[c]
            out == Outcomes(f)
            inv == EventsOf(f, "invoke")
        IN  \A k \in 1 .. Len(out) :
                ( /\ out[k].ev = "fulfilled"
                  /\ \A j \in 1 .. (k - 1) : out[j].ev = "rejected"
                  /\ k <= f.maxRetries )
                => /\ f.settled = "resolved"
                   /\ f.value = out[k].value
                   /\ Len(inv) = k
                   /\ \A i \in 1 .. Len(inv) :
                         inv[i].thisArg = f.thisArg /\ inv[i].args = f.args

\* C2: when an invocation of the target fails and there is no predicate or
\* the predicate answers false for (error, args), retry rejects with that
\* error and does nothing after it: no invocation, no sleep, no 'throttle'.
C2_DeclinedFailureIsTerminal ==
    \A c \in Made :
        LET f == frame[c]
            L == f.log
        IN  \A i \in 1 .. Len(L) :
                L[i].ev = "rejected" =>
                    LET asked    == i < Len(L) /\ L[i + 1].ev = "predicate"
                        declined == asked /\ ~L[i + 1].threw /\ ~L[i + 1].answer
                    IN  /\ f.predicate <=> asked
                        /\ asked => L[i + 1].error = L[i].error /\ L[i + 1].args = f.args
                        /\ (~f.predicate \/ declined)
                           => /\ f.settled = "rejected"
                              /\ f.value = L[i].error
                              /\ Len(L) = IF asked THEN i + 1 ELSE i

C2_Witness ==
    \E c \in Made :
        LET f == frame[c]
        IN  /\ f.settled = "rejected"
            /\ Invocations(f) = 2
            /\ Last(f.log).ev = "predicate"
            /\ ~Last(f.log).threw
            /\ ~Last(f.log).answer

\* the target failed at every invocation and the predicate approved every
\* failure
AlwaysFailsAlwaysApproved(f) ==
    /\ f.predicate
    /\ \A i \in 1 .. Len(f.log) :
          /\ f.log[i].ev # "fulfilled"
          /\ f.log[i].ev = "predicate" => f.log[i].answer

\* C3: with a target that fails at every invocation, a predicate that always
\* answers true and maxRetries = m >= 1, retry invokes the target exactly m
\* times and then rejects; maxRetries = 1, the default, is one attempt.
C3_ExactlyMaxRetriesAttempts ==
    \A c \in Made :
        LET f == frame[c]
        IN  (AlwaysFailsAlwaysApproved(f) /\ f.maxRetries >= 1)
            => /\ calls[c].options.maxRetries = Undefined => f.maxRetries = 1
               /\ Invocations(f) <= f.maxRetries
               /\ f.pc = "awaitSleep" => Invocations(f) < f.maxRetries
               /\ f.pc = "done" => f.settled = "rejected" /\ Invocations(f) = f.maxRetries

\* retry gave up because the retries are exhausted: the predicate approved
\* what was caught and the call was rejected
RetriesExhausted(f) ==
    /\ f.settled = "rejected"
    /\ Last(f.log).ev = "predicate"
    /\ Last(f.log).answer

\* C4: when the retries are exhausted, retry rejects with the error thrown
\* by the most recent invocation of the target, that very value.
C4_ExhaustedRejectsWithLastTargetError ==
    \A c \in Made :
        LET f == frame[c]
        IN  RetriesExhausted(f)
            => /\ Last(Outcomes(f)).ev = "rejected"
               /\ f.value = Last(Outcomes(f)).error

\* C5 as stated: the number of invocations of the target never exceeds
\* maxRetries.
C5_AttemptsWithinMaxRetries ==
    \A c \in Made : Invocations(frame[c]) <= frame[c].maxRetries

\* C5, amended: the number of invocations of the target never exceeds
\* max(1, maxRetries); one invocation is made whatever maxRetries is.
C5_AttemptsWithinMaxRetriesOrOne ==
    \A c \in Made :
        /\ Invocations(frame[c]) <= (IF frame[c].maxRetries > 1
                                      THEN frame[c].maxRetries ELSE 1)
        /\ Invocations(frame[c]) >= 1

C5_Witness ==
    \E c \in Made :
        /\ frame[c].pc = "done"
        /\ frame[c].maxRetries >= 2
        /\ Invocations(frame[c]) = frame[c].maxRetries

\* C6: when thisArg has an emit and retry succeeds on its k-th invocation,
\* 'retries' is emitted exactly once, after the successful invocation, with
\* the target's name, the arguments and k.
C6_RetriesEmittedOnce ==
    \A c \in Made :
        LET f == frame[c]
            r == EmitsOf(f, "retries")
        IN  (f.settled = "resolved" /\ f.thisArg = "emitter")
            => /\ Len(r) = 1
               /\ Last(f.log) = r[1]
               /\ f.log[Len(f.log) - 1].ev = "fulfilled"
               /\ r[1].fname = TargetName
               /\ r[1].args = f.args
               /\ r[1].payload = Invocations(f)

\* C7: when thisArg has an emit, every sleep comes right after one
\* 'throttle' emit that carries the delay given to the sleep, every
\* 'throttle' emit is followed by a sleep, and there are as many of the one
\* as of the other.
C7_ThrottleBeforeEverySleep ==
    \A c \in Made :
        LET f == frame[c]
            L == f.log
        IN  /\ \A i \in 1 .. Len(L) :
                  (L[i].ev = "sleep" /\ f.thisArg = "emitter")
                  => /\ i > 1
                     /\ L[i - 1].ev = "emit"
                     /\ L[i - 1].name = "throttle"
                     /\ L[i - 1].fname = TargetName
                     /\ L[i - 1].args = f.args
                     /\ L[i - 1].payload = L[i].ms
            /\ \A i \in 1 .. Len(L) :
                  (L[i].ev = "emit" /\ L[i].name = "throttle")
                  => i < Len(L) /\ L[i + 1].ev = "sleep"
            /\ f.thisArg = "emitter" => Len(EmitsOf(f, "throttle")) = Sleeps(f)
            /\ f.thisArg # "emitter" => Len(EventsOf(f, "emit")) = 0

\* C8: whenever retry rejects, it rejects with an error thrown by an
\* invocation of the target made in this call; and it resolves only when the
\* last invocation succeeded.
C8_RejectsOnlyWithTargetErrors ==
    \A c \in Made :
        LET f == frame[c]
        IN  /\ f.settled = "rejected"
               => \E i \in 1 .. Len(f.log) :
                     f.log[i].ev = "rejected" /\ f.log[i].error = f.value
            /\ f.settled = "resolved"
               => /\ Last(Outcomes(f)).ev = "fulfilled"
                  /\ Last(Outcomes(f)).value = f.value

\* C9: the invocations of the target are serialized: between two consecutive
\* invocations the first one completes, with a failure, and the sleep that
\* follows it completes.
C9_InvocationsSerialized ==
    \A c \in Made :
        LET L == frame[c].log
        IN  \A i, j \in 1 .. Len(L) :
                ( /\ i < j
                  /\ L[i].ev = "invoke"
                  /\ L[j].ev = "invoke"
                  /\ \A k \in (i + 1) .. (j - 1) : L[k].ev # "invoke" )
                => \E p, q, r \in (i + 1) .. (j - 1) :
                      /\ p < q
                      /\ q < r
                      /\ L[p].ev = "rejected"
                      /\ L[q].ev = "sleep"
                      /\ L[r].ev = "woken"
                      /\ \A k \in (i + 1) .. (j - 1) : L[k].ev # "fulfilled"

\* C10: two calls that run at the same time share no state: the frame of
\* each (its counter, its recorded error, its generator, the attempts it
\* made, the delays it slept, its outcome) is the frame the call has when it
\* runs alone with the same inputs.
C10_ConcurrentCallsIndependent ==
    \A c \in Calls :
        Len(inputs[c]) > 0 => frame[c] = Alone(c)

C10_Witness ==
    /\ frame[1].pc = "awaitSleep"
    /\ frame[1].numRetries = 2
    /\ frame[2].pc = "awaitTarget"
    /\ Invocations(frame[2]) = 2
    /\ frame[1].delayMs # frame[2].delayMs

\* C11: the emit is never required for correctness: a call on a receiver
\* that has an emit makes the same number of invocations, sleeps the same
\* delays and ends with the same result or error as the same call on null or
\* on a receiver without emit.
C11_EmitNotRequired ==
    \A c \in Made :
        \A t \in {"null", "plain"} :
            LET f == frame[c]
                g == OnReceiver(c, t)
            IN  f.thisArg = "emitter"
                => /\ Invocations(f) = Invocations(g)
                   /\ EventsOf(f, "sleep") = EventsOf(g, "sleep")
                   /\ f.settled = g.settled
                   /\ f.value = g.value
                   /\ Len(EventsOf(g, "emit")) = 0

\* the jitter argument switches the jitter off: false or absent
JitterOff(j) == j = NoJitter \/ j = BooleanJitter(FALSE)

\* C12: with jitter off, the n-th value of exponentialGenerator(base, factor,
\* maxValue, minValue, false) is factor * base^n clamped first to the ceiling
\* maxValue, when it is set, then to the floor minValue, when it is set (the
\* floor being maxValue when the two contradict); with no clamp it is
\* factor * base^n exactly, and with base 1 the sequence is constant.
C12_DeterministicValues ==
    \A i \in 1 .. Len(Yielded) :
        LET n       == i - 1
            raw     == Times(GeneratorFactor, Pow(GeneratorBase, n))
            ceiled  == IF GeneratorMaxValue # Undefined
                       THEN Min(GeneratorMaxValue[1], raw) ELSE raw
            floor   == IF /\ GeneratorMaxValue # Undefined
                          /\ GeneratorMinValue # Undefined
                          /\ Less(GeneratorMaxValue[1], GeneratorMinValue[1])
                       THEN GeneratorMaxValue ELSE GeneratorMinValue
            floored == IF floor # Undefined THEN Max(floor[1], ceiled) ELSE ceiled
        IN  JitterOff(GeneratorJitter)
            => /\ Yielded[i].index = n
               /\ Yielded[i].value = floored
               /\ (GeneratorMaxValue = Undefined /\ GeneratorMinValue = Undefined)
                  => Yielded[i].value = raw
               /\ GeneratorBase = Whole(1) => Yielded[i].value = Yielded[1].value

\* C13: when maxValue is set, to any number, every value before the jitter
\* step is at most maxValue, at every index.
C13_CeilingHolds ==
    \A i \in 1 .. Len(Yielded) :
        GeneratorMaxValue # Undefined
        => AtMost(Yielded[i].exponential, GeneratorMaxValue[1])

\* C14: when minValue is set and maxValue is unset or at least minValue,
\* every generated value, before its jitter, is at least minValue, at every
\* index.
C14_FloorHolds ==
    \A i \in 1 .. Len(Yielded) :
        ( /\ GeneratorMinValue # Undefined
          /\ \/ GeneratorMaxValue = Undefined
             \/ AtMost(GeneratorMinValue[1], GeneratorMaxValue[1]) )
        => AtMost(GeneratorMinValue[1], Yielded[i].exponential)

\* C15: when minValue is greater than maxValue the ceiling wins: every value
\* before the jitter step equals maxValue, so none exceeds it.
C15_CeilingWinsOverFloor ==
    \A i \in 1 .. Len(Yielded) :
        ( /\ GeneratorMinValue # Undefined
          /\ GeneratorMaxValue # Undefined
          /\ Less(GeneratorMaxValue[1], GeneratorMinValue[1]) )
        => Yielded[i].exponential = GeneratorMaxValue[1]

\* C16: with jitter = true every value pulled lies in [0, d], d being the
\* value before the jitter step at that index, whatever Math.random() gives.
C16_FullJitterRange ==
    \A i \in 1 .. Len(Yielded) :
        GeneratorJitter = BooleanJitter(TRUE)
        => /\ AtMost(Whole(0), Yielded[i].value)
           /\ AtMost(Yielded[i].value, Yielded[i].exponential)

\* C17: with a numeric jitter j every value pulled lies in
\* [round((1 - j) * d), d] when 0 < j < 1, is d exactly when j = 0, as with
\* no jitter, and lies in [0, d] when j = 1.
C17_PartialJitterRange ==
    \A i \in 1 .. Len(Yielded) :
        LET j == GeneratorJitter
            d == Yielded[i].exponential
            v == Yielded[i].value
        IN  j.type = "number"
            => /\ (Less(Whole(0), j.value) /\ Less(j.value, Whole(1)))
                  => /\ AtMost(Round(Times(Minus(Whole(1), j.value), d)), v)
                     /\ AtMost(v, d)
               /\ j.value = Whole(0) => v = d
               /\ j.value = Whole(1) => AtMost(Whole(0), v) /\ AtMost(v, d)

\* C18: every value yielded is an integer, for every jitter setting (true,
\* false, absent, a number) and every base and factor.
C18_ValuesAreIntegers ==
    \A i \in 1 .. Len(Yielded) : IsInteger(Yielded[i].value)

\* the call retry(options, originalMethod, r, ...args) that the decorated
\* call c stands for: the options of backoffWith, or r.backoffOptions
DirectCall(c) ==
    CallOf(IF calls[c].via = "backoff" THEN calls[c].backoffOptions[1]
                                       ELSE calls[c].options,
           calls[c].thisArg, calls[c].args)

\* C19: a call of a method wrapped by backoffWith(options) or by backoff, on
\* the receiver r with the arguments args, does what
\* retry(options, originalMethod, r, ...args) does, the options of backoff
\* being r.backoffOptions at the time of the call: the same invocations of
\* the original method, the same sleeps, the same result or error.
C19_DecoratedCallIsRetry ==
    \A c \in Made :
        calls[c].via \in {"backoffWith", "backoff"}
        => frame[c] = Replay(DirectCall(c), inputs[c], Len(inputs[c]))

C19_Witness ==
    /\ calls[1].via = "backoff"
    /\ calls[1].thisArg = "emitter"
    /\ calls[1].backoffOptions = Some(OptionsOf(TestDelays, Some(3), TRUE))
    /\ frame[1].settled = "rejected"
    /\ Invocations(frame[1]) = 3
    /\ EventsOf(frame[1], "invoke")[3].thisArg = "emitter"
    /\ Len(EmitsOf(frame[1], "throttle")) = 2

\* the state of the call's state machine: the attempt in flight, the sleep
\* in flight, or the way the call ended
MachineState(f) ==
    CASE f.pc = "awaitTarget" -> "ATTEMPTING"
      [] f.pc = "awaitSleep"  -> "WAITING"
      [] f.pc = "done" /\ f.settled = "resolved" -> "SUCCEEDED"
      [] f.pc = "done" /\ f.settled = "rejected" ->
            IF RetriesExhausted(f) THEN "FAILED_EXHAUSTED" ELSE "FAILED_NO_RETRY"
      [] OTHER -> "NOT_STARTED"

\* the states the call entered, in order: ATTEMPTING at every invocation,
\* WAITING at every sleep
Entered(f) == SelectSeq(f.log, LAMBDA x : x.ev \in {"invoke", "sleep"})

\* C20: a retry call follows the state machine ATTEMPTING -> SUCCEEDED |
\* FAILED_NO_RETRY | FAILED_EXHAUSTED | WAITING, WAITING -> ATTEMPTING: it
\* starts in ATTEMPTING, ATTEMPTING and WAITING alternate, WAITING is entered
\* only from an attempt that failed, with the predicate's approval and
\* attempts remaining, a terminal state is entered from ATTEMPTING and has no
\* step after it.
C20_StateMachine ==
    \A c \in Made :
        LET f == frame[c]
            L == f.log
            E == Entered(f)
        IN  /\ MachineState(f) # "NOT_STARTED"
            /\ E[1].ev = "invoke"
            /\ \A i \in 1 .. (Len(E) - 1) : E[i].ev # E[i + 1].ev
            /\ MachineState(f) = "ATTEMPTING" => Last(E).ev = "invoke" /\ Last(L) = Last(E)
            /\ MachineState(f) = "WAITING" => Last(E).ev = "sleep" /\ Last(L) = Last(E)
            /\ f.pc = "done"
               => /\ Last(E).ev = "invoke"
                  /\ ~ENABLED (TargetFulfilled(c) \/ TargetRejected(c) \/ Woken(c) \/ Start(c))
            /\ \A i \in 1 .. Len(L) :
                  L[i].ev = "sleep"
                  => LET before == SubSeq(L, 1, i)
                         out    == SelectSeq(before, LAMBDA x : x.ev \in {"fulfilled", "rejected"})
                         asked  == SelectSeq(before, LAMBDA x : x.ev = "predicate")
                         tried  == Len(SelectSeq(before, LAMBDA x : x.ev = "invoke"))
                     IN  /\ Last(out).ev = "rejected"
                         /\ Len(asked) = tried
                         /\ Last(asked).answer
                         /\ Last(asked).error = Last(out).error
                         /\ tried < f.maxRetries

\* C21: once an invocation of the target succeeds the call is terminal: it
\* resolves with that result, and after the success there is nothing but the
\* 'retries' emit: no invocation, no predicate call, no sleep, no pull from
\* the generator, whatever the emit does.
C21_SuccessIsTerminal ==
    \A c \in Made :
        LET f == frame[c]
            L == f.log
        IN  \A i \in 1 .. Len(L) :
                L[i].ev = "fulfilled"
                => /\ f.settled = "resolved"
                   /\ f.value = L[i].value
                   /\ \A j \in (i + 1) .. Len(L) :
                         L[j].ev = "emit" /\ L[j].name = "retries"

\* C22: a retry call with a finite maxRetries reaches a terminal state in the
\* end, provided every invocation of the target, every predicate call and
\* every sleep completes; and it ends by a return or a throw from the loop
\* body, resolved or rejected, never by running out of delays.
C22_EveryCallTerminates ==
    /\ [](\A c \in Made :
             frame[c].pc = "done" => frame[c].settled \in {"resolved", "rejected"})
    /\ \A c \in Calls :
          (frame[c].pc \in {"awaitTarget", "awaitSleep"}) ~> (frame[c].pc = "done")

C22_Witness ==
    \E c \in Made :
        /\ frame[c].pc = "done"
        /\ frame[c].settled = "resolved"
        /\ frame[c].maxRetries = 3
        /\ Invocations(frame[c]) = 3
        /\ Sleeps(frame[c]) = 2

\* C23 as stated: a value is pulled from the generator only when a retry is
\* warranted: there are as many pulls as sleeps, and no pull for an attempt
\* that succeeds, is declined or exhausts the retries.
C23_PullsEqualSleeps ==
    \A c \in Made :
        Len(EventsOf(frame[c], "pull")) = Sleeps(frame[c])

\* C23, amended: a value is pulled at the head of every iteration, right
\* before the invocation of the target, whatever the attempt's outcome will
\* be: there are as many pulls as invocations, one more than calls of
\* sleepFunction while an attempt is in flight and after a call has ended
\* at an attempt, and the value pulled for such an attempt is never slept.
C23_PullBeforeEveryInvocation ==
    \A c \in Made :
        LET f == frame[c]
            L == f.log
        IN  /\ Len(EventsOf(f, "pull")) = Invocations(f)
            /\ \A i \in 1 .. Len(L) :
                  L[i].ev = "pull" => i < Len(L) /\ L[i + 1].ev = "invoke"
            /\ \A i \in 1 .. Len(L) :
                  L[i].ev = "invoke" => i > 1 /\ L[i - 1].ev = "pull"
            /\ f.pc = "awaitSleep" => Sleeps(f) = Invocations(f)
            /\ f.pc = "awaitTarget" => Sleeps(f) = Invocations(f) - 1
            /\ f.pc = "done" =>
                  Sleeps(f) = IF f.value = SleepError
                              THEN Invocations(f) ELSE Invocations(f) - 1

C23_Witness ==
    \E c \in Made :
        LET f == frame[c]
        IN  /\ f.settled = "resolved"
            /\ Len(EventsOf(f, "pull")) = 2
            /\ Sleeps(f) = 1
            /\ Last(EventsOf(f, "pull")).index = 1

\* factor * base^n between the ceiling and the floor of the frame f
ClampedDelay(f, n) ==
    LET raw    == Times(f.backoffFactor, Pow(f.base, n))
        ceiled == IF f.maxDelayMs # Undefined THEN Min(f.maxDelayMs[1], raw) ELSE raw
    IN  IF f.minDelayMs # Undefined THEN Max(f.minDelayMs[1], ceiled) ELSE ceiled

\* C24: the k-th sleep of a call, the one after the k-th invocation, lasts
\* the generator's value of index k - 1: without jitter the clamped
\* backoffFactor * base^(k-1), backoffFactor (clamped) for the first sleep;
\* the values are taken in order, none skipped, none used twice.
C24_SleepUsesGeneratorInOrder ==
    \A c \in Made :
        LET f == frame[c]
            S == EventsOf(f, "sleep")
            P == EventsOf(f, "pull")
        IN  /\ \A i \in 1 .. Len(P) : P[i].index = i - 1
            /\ \A k \in 1 .. Len(S) :
                  /\ S[k].ms = P[k].value
                  /\ RandsOf(f.fullJitter) = {Whole(0)}
                     => S[k].ms = ClampedDelay(f, k - 1)
            /\ (Len(S) >= 1 /\ RandsOf(f.fullJitter) = {Whole(0)})
               => S[1].ms = ClampedDelay(f, 0)

\* the call c as it was made, as a call of retry: the options object as it
\* was at the call
AsMade(c) ==
    LET k == inputs[c][1].call
    IN  CallOf(IF k.via = "backoff" THEN k.backoffOptions[1] ELSE k.options,
               k.thisArg, k.args)

\* C25: the options are read once, when retry starts, and retry never writes
\* them: whatever is assigned to the options object while the call is in
\* flight, the call makes the attempts, sleeps the delays and has the
\* outcome of the call with the options as they were at the start; and no
\* step of retry changes a field of the options object.
C25_OptionsReadOnce ==
    /\ [](\A c \in Made : frame[c] = Replay(AsMade(c), inputs[c], Len(inputs[c])))
    /\ [][inputs' # inputs => calls' = calls]_vars

C25_Witness ==
    /\ inputs[1] # <<>>
    /\ RetryOptions(calls[1]).maxRetries = Some(0)
    /\ ~RetryOptions(calls[1]).predicate
    /\ frame[1].pc = "done"
    /\ frame[1].maxRetries = 2
    /\ Invocations(frame[1]) = 2
    /\ Sleeps(frame[1]) = 1
    /\ Len(EventsOf(frame[1], "predicate")) = 2

\* the events of the frame after its latest invocation of the target
SinceLastInvocation(f) ==
    LET at == CHOOSE i \in 1..Len(f.log) :
                  /\ f.log[i].ev = "invoke"
                  /\ \A j \in (i+1)..Len(f.log) : f.log[j].ev # "invoke"
    IN  SubSeq(f.log, at + 1, Len(f.log))

\* C26: the exhaustion check comes before the sleep: a call that has ended
\* slept once less than it invoked the target, and after its final
\* invocation there is no sleep and no 'throttle' notification; a call that
\* fails does not wait after its last attempt.
C26_NoWaitAfterLastAttempt ==
    \A c \in Made :
        frame[c].pc = "done" =>
            /\ Sleeps(frame[c]) = Invocations(frame[c]) - 1
            /\ \A i \in 1..Len(SinceLastInvocation(frame[c])) :
                   LET x == SinceLastInvocation(frame[c])[i]
                   IN  /\ x.ev # "sleep"
                       /\ x.ev = "emit" => x.name # "throttle"

\* the call c with maxRetries: 1 in its options
WithOneRetry(c) == [calls[c] EXCEPT !.options.maxRetries = Some(1)]

\* C27: retry invokes the target at least once, and a call with maxRetries
\* zero or negative behaves as the call with maxRetries 1: with the same
\* behaviour of the target it takes the same steps, it invokes the target
\* once, never sleeps, and when that invocation fails it rejects with the
\* invocation's error.
C27_NonPositiveMaxRetriesIsOne ==
    \A c \in Made :
        /\ Invocations(frame[c]) >= 1
        /\ frame[c].maxRetries <= 0 =>
              /\ [frame[c] EXCEPT !.maxRetries = 1]
                     = Replay(WithOneRetry(c), inputs[c], Len(inputs[c]))
              /\ Invocations(frame[c]) = 1
              /\ Sleeps(frame[c]) = 0
              /\ frame[c].pc = "awaitTarget" \/ frame[c].pc = "done"
              /\ (frame[c].pc = "done" /\ Last(Outcomes(frame[c])).ev = "rejected") =>
                     /\ frame[c].settled = "rejected"
                     /\ frame[c].value = Last(Outcomes(frame[c])).error

=============================================================================
